---------------------------- MODULE Spec2Model ----------------------------
(***************************************************************************)
(* Model of srs/quest_generator.py: the quest data model, the id           *)
(* sanitizer, the JSON codec, the HTML renderer and the handlers of        *)
(* QuestEditorApp that mutate the project.                                 *)
(*                                                                         *)
(* A Python str is a sequence of characters; a character is a one-element  *)
(* token.  Characters outside ASCII are written as named tokens:           *)
(*   "a_uml" "o_uml" "u_uml" (the lower case umlauts), "A_UML" "O_UML"      *)
(*   "U_UML" (upper case), "sz" (sharp s), "hellip", "mdash".              *)
(***************************************************************************)
EXTENDS Integers, Sequences, FiniteSets, TLC

VARIABLES
    project,             \* self.project: [meta, nodes]
    current_node_index,  \* self.current_node_index: None or a 0-based index
    ui,                  \* the widgets' contents (StringVars, Text widgets, option tree)
    out,                 \* what the last handler showed and wrote
    pc,                  \* position of the pure-function harness
    arg,                 \* its input
    res,                 \* its first result
    res2                 \* its second result

vars == <<project, current_node_index, ui, out, pc, arg, res, res2>>

(***************************************************************************)
(* Bounds of the model.                                                    *)
(***************************************************************************)
MaxNodes == 2   \* _add_node is not taken with this many nodes in the project
MaxOpts == 1    \* _add_option is not taken with this many rows in the tree
MaxLen == 3     \* longest raw text handed to sanitize_id by the harness

(***************************************************************************)
(* Strings.                                                                *)
(***************************************************************************)
LowerSeq == <<"a","b","c","d","e","f","g","h","i","j","k","l","m",
              "n","o","p","q","r","s","t","u","v","w","x","y","z">>
UpperSeq == <<"A","B","C","D","E","F","G","H","I","J","K","L","M",
              "N","O","P","Q","R","S","T","U","V","W","X","Y","Z">>
DigitSeq == <<"0","1","2","3","4","5","6","7","8","9">>

Range(f) == { f[i] : i \in DOMAIN f }

LowerLetters == Range(LowerSeq)
Digits == Range(DigitSeq)
WS == {" ", "\t", "\n", "\r"}

Empty == << >>

RECURSIVE Map(_, _)
Map(Op(_), s) == IF s = << >> THEN << >> ELSE <<Op(Head(s))>> \o Map(Op, Tail(s))

\* str.lstrip(chars) / str.rstrip(chars) / str.strip(chars)
RECURSIVE LStrip(_, _)
LStrip(s, cs) == IF s # << >> /\ Head(s) \in cs THEN LStrip(Tail(s), cs) ELSE s

RECURSIVE RStrip(_, _)
RStrip(s, cs) ==
    IF s # << >> /\ s[Len(s)] \in cs THEN RStrip(SubSeq(s, 1, Len(s) - 1), cs) ELSE s

Strip(s, cs) == RStrip(LStrip(s, cs), cs)

strip(s) == Strip(s, WS)
rstrip(s) == RStrip(s, WS)

\* str.lower(), one character
LowerMap ==
    [c \in Range(UpperSeq) |-> LowerSeq[CHOOSE i \in DOMAIN UpperSeq : UpperSeq[i] = c]]

LowerChar(c) ==
    IF c \in DOMAIN LowerMap THEN LowerMap[c]
    ELSE CASE c = "A_UML" -> "a_uml"
           [] c = "O_UML" -> "o_uml"
           [] c = "U_UML" -> "u_uml"
           [] OTHER -> c

lower(s) == Map(LowerChar, s)

\* x or y, for strings and lists: the empty one is falsy
Or(x, y) == IF x = << >> THEN y ELSE x

\* str(i) for i >= 0
RECURSIVE IntToStr(_)
IntToStr(i) ==
    IF i < 10 THEN <<DigitSeq[i + 1]>> ELSE IntToStr(i \div 10) \o <<DigitSeq[(i % 10) + 1]>>

(***************************************************************************)
(* sanitize_id                                                             *)
(***************************************************************************)
\* .replace("a_uml","ae").replace("o_uml","oe").replace("u_uml","ue").replace("sz","ss")
TranslitChar(c) ==
    CASE c = "a_uml" -> <<"a", "e">>
      [] c = "o_uml" -> <<"o", "e">>
      [] c = "u_uml" -> <<"u", "e">>
      [] c = "sz"    -> <<"s", "s">>
      [] OTHER       -> <<c>>

RECURSIVE Translit(_)
Translit(s) == IF s = << >> THEN << >> ELSE TranslitChar(Head(s)) \o Translit(Tail(s))

IdChars == LowerLetters \cup Digits \cup {"-", "_"}

IdChar(c) == c \in IdChars

\* re.sub(r"[^a-z0-9\-_]+", "-", s): every maximal run of other characters becomes one "-"
RECURSIVE SubRuns(_, _)
SubRuns(s, inRun) ==
    IF s = << >> THEN << >>
    ELSE IF IdChar(Head(s)) THEN <<Head(s)>> \o SubRuns(Tail(s), FALSE)
    ELSE IF inRun THEN SubRuns(Tail(s), TRUE)
    ELSE <<"-">> \o SubRuns(Tail(s), TRUE)

\* re.sub(r"-{2,}", "-", s)
RECURSIVE SubDashes(_, _)
SubDashes(s, afterDash) ==
    IF s = << >> THEN << >>
    ELSE IF Head(s) = "-"
         THEN (IF afterDash THEN << >> ELSE <<"-">>) \o SubDashes(Tail(s), TRUE)
         ELSE <<Head(s)>> \o SubDashes(Tail(s), FALSE)

S_node == <<"n","o","d","e">>

\* sanitize_id without the fallback literal
sanitize_id_no_fallback(raw) ==
    Strip(SubDashes(SubRuns(Translit(lower(strip(raw))), FALSE), FALSE), {"-"})

\* sanitize_id stripping the "-" before the substitutions
sanitize_id_strip_first(raw) ==
    LET r2 == Strip(Translit(lower(strip(raw))), {"-"})
    IN  Or(SubDashes(SubRuns(r2, FALSE), FALSE), S_node)

sanitize_id(raw) ==
    LET r1 == lower(strip(raw))
        r2 == Translit(r1)
        r3 == SubRuns(r2, FALSE)
        r4 == Strip(SubDashes(r3, FALSE), {"-"})
    IN  Or(r4, S_node)

(***************************************************************************)
(* String literals of the program.                                         *)
(***************************************************************************)
S_start == <<"s","t","a","r","t">>
S_StartArdea == <<"S","t","a","r","t",":"," ","A","r","d","e","a">>
S_Start == <<"S","t","a","r","t">>
S_NeueQuest == <<"N","e","u","e"," ","Q","u","e","s","t">>
S_Unbekannt == <<"U","n","b","e","k","a","n","n","t">>
S_Kurzbeschreibung == <<"K","u","r","z","b","e","s","c","h","r","e","i","b","u","n","g"," ","h","i","e","r","hellip">>
S_knoten == <<"k","n","o","t","e","n">>
S_Knoten == <<"K","n","o","t","e","n"," ">>
S_Weiter == <<"W","e","i","t","e","r">>
S_end == <<"e","n","d">>
S_top == <<"t","o","p">>
S_NeueOption == <<"N","e","u","e"," ","O","p","t","i","o","n">>
S_Option == <<"O","p","t","i","o","n">>
S_dash == <<"mdash">>
S_nl == <<"\n">>

(***************************************************************************)
(* Datenmodell: Option, Node, QuestMeta, QuestProject (dataclasses).       *)
(***************************************************************************)
Option(label, target) == [label |-> label, target |-> target]

NodeKeys == {"node_id", "title", "scene", "dialog", "content", "info_items",
             "tech_flags", "outcomes", "notes", "options"}

Node(node_id, title, options) ==
    [node_id |-> node_id, title |-> title, scene |-> Empty, dialog |-> Empty,
     content |-> Empty, info_items |-> << >>, tech_flags |-> << >>,
     outcomes |-> << >>, notes |-> Empty, options |-> options]

MetaKeys == {"quest_name", "region", "short_description", "quest_giver",
             "prerequisite", "quest_type", "meta_short", "rewards",
             "important_flags", "version_stamp"}

QuestMeta ==
    [quest_name |-> S_NeueQuest, region |-> S_Unbekannt,
     short_description |-> S_Kurzbeschreibung, quest_giver |-> Empty,
     prerequisite |-> Empty, quest_type |-> Empty, meta_short |-> Empty,
     rewards |-> Empty, important_flags |-> Empty, version_stamp |-> Empty]

QuestProject(meta, nodes) == [meta |-> meta, nodes |-> nodes]

(***************************************************************************)
(* Helpers: lines_to_list, list_to_lines, html_escape.                     *)
(***************************************************************************)
\* str.splitlines(): the pieces between line breaks; no piece after a final break
RECURSIVE SplitLines(_, _)
SplitLines(s, cur) ==
    IF s = << >> THEN (IF cur = << >> THEN << >> ELSE <<cur>>)
    ELSE IF Head(s) \in {"\n", "\r"} THEN <<cur>> \o SplitLines(Tail(s), << >>)
    ELSE SplitLines(Tail(s), Append(cur, Head(s)))

lines_to_list(text) ==
    SelectSeq(Map(strip, SplitLines(text, << >>)), LAMBDA ln : ln # << >>)

RECURSIVE Join(_, _)
Join(sep, items) ==
    IF items = << >> THEN << >>
    ELSE IF Len(items) = 1 THEN Head(items)
    ELSE Head(items) \o sep \o Join(sep, Tail(items))

list_to_lines(items) == Join(S_nl, items)

\* one pass of str.replace(old, new) for a one-character old
RECURSIVE Replace(_, _, _)
Replace(s, old, new) ==
    IF s = << >> THEN << >>
    ELSE (IF Head(s) = old THEN new ELSE <<Head(s)>>) \o Replace(Tail(s), old, new)

\* html_escape replacing "&" after "<" and ">"
html_escape_amp_last(s) ==
    Replace(Replace(Replace(s, "<", <<"&","l","t",";">>),
                    ">", <<"&","g","t",";">>),
            "&", <<"&","a","m","p",";">>)

html_escape(s) ==
    Replace(Replace(Replace(s, "&", <<"&","a","m","p",";">>),
                    "<", <<"&","l","t",";">>),
            ">", <<"&","g","t",";">>)

(***************************************************************************)
(* JSON codec.  A dict is a function on its keys; d.get(k, default).       *)
(***************************************************************************)
Get(d, k, default) == IF k \in DOMAIN d THEN d[k] ELSE default

option_to_dict(opt) == [label |-> opt.label, target |-> opt.target]

option_from_dict(d) == Option(Get(d, "label", Empty), Get(d, "target", Empty))

project_to_jsonable(p) ==
    [meta  |-> [k \in MetaKeys |-> p.meta[k]],
     nodes |-> [i \in DOMAIN p.nodes |->
                  [k \in NodeKeys |->
                     IF k = "options"
                     THEN Map(option_to_dict, p.nodes[i].options)
                     ELSE p.nodes[i][k]]]]

\* node_from_dict reading outcomes from the key of tech_flags
node_from_dict_wrong_key(nd) ==
    [node_id    |-> Get(nd, "node_id", S_node),
     title      |-> Get(nd, "title", Empty),
     scene      |-> Get(nd, "scene", Empty),
     dialog     |-> Get(nd, "dialog", Empty),
     content    |-> Get(nd, "content", Empty),
     info_items |-> Or(Get(nd, "info_items", << >>), << >>),
     tech_flags |-> Or(Get(nd, "tech_flags", << >>), << >>),
     outcomes   |-> Or(Get(nd, "tech_flags", << >>), << >>),
     notes      |-> Get(nd, "notes", Empty),
     options    |-> Map(option_from_dict, Or(Get(nd, "options", << >>), << >>))]

node_from_dict(nd) ==
    [node_id    |-> Get(nd, "node_id", S_node),
     title      |-> Get(nd, "title", Empty),
     scene      |-> Get(nd, "scene", Empty),
     dialog     |-> Get(nd, "dialog", Empty),
     content    |-> Get(nd, "content", Empty),
     info_items |-> Or(Get(nd, "info_items", << >>), << >>),
     tech_flags |-> Or(Get(nd, "tech_flags", << >>), << >>),
     outcomes   |-> Or(Get(nd, "outcomes", << >>), << >>),
     notes      |-> Get(nd, "notes", Empty),
     options    |-> Map(option_from_dict, Or(Get(nd, "options", << >>), << >>))]

project_from_jsonable(d) ==
    LET meta_d  == Get(d, "meta", << >>)
        nodes_d == Get(d, "nodes", << >>)
    IN  QuestProject([k \in MetaKeys |-> Get(meta_d, k, Empty)],
                     Map(node_from_dict, nodes_d))

(***************************************************************************)
(* QuestEditorApp.  A handler runs on the record                           *)
(*   s = [project, cur, ui, msg, exc]                                      *)
(* of the editor's state, the message box it has shown (msg) and whether   *)
(* an exception has left the handler (exc).  Once exc is set the rest of   *)
(* the handler is skipped: Tk reports the exception and the main loop goes *)
(* on with the state as it was when the exception was raised.              *)
(***************************************************************************)
None == -1

NoMsg == "none"

State(p, cur, u) == [project |-> p, cur |-> cur, ui |-> u, msg |-> NoMsg, exc |-> FALSE]

node_ids(nodes) == [i \in DOMAIN nodes |-> nodes[i].node_id]

\* _load_meta_to_ui; now is the value now_stamp() would return
load_meta_to_ui(s, now) ==
    LET m == s.project.meta
    IN  [s EXCEPT !.ui = [s.ui EXCEPT
            !.var_quest_name = m.quest_name,
            !.var_region = m.region,
            !.var_quest_giver = m.quest_giver,
            !.var_prereq = m.prerequisite,
            !.var_type = m.quest_type,
            !.var_version = Or(m.version_stamp, now),
            !.txt_short = m.short_description,
            !.txt_meta_short = m.meta_short,
            !.txt_rewards = m.rewards,
            !.txt_imp_flags = m.important_flags]]

\* _apply_meta_from_ui
apply_meta_from_ui(s) ==
    [s EXCEPT !.project.meta =
        [quest_name        |-> strip(s.ui.var_quest_name),
         region            |-> strip(s.ui.var_region),
         quest_giver       |-> strip(s.ui.var_quest_giver),
         prerequisite      |-> strip(s.ui.var_prereq),
         quest_type        |-> strip(s.ui.var_type),
         version_stamp     |-> strip(s.ui.var_version),
         short_description |-> strip(s.ui.txt_short),
         meta_short        |-> strip(s.ui.txt_meta_short),
         rewards           |-> strip(s.ui.txt_rewards),
         important_flags   |-> strip(s.ui.txt_imp_flags)]]

\* the option a row of the tree becomes in _apply_current_node
option_from_row(row) == Option(strip(row.label), sanitize_id(strip(row.target)))

\* the node _apply_current_node writes from the form
node_from_ui(u, node_id) ==
    [node_id    |-> node_id,
     title      |-> Or(strip(u.var_node_title), node_id),
     scene      |-> strip(u.txt_scene),
     dialog     |-> rstrip(u.txt_dialog),
     content    |-> strip(u.txt_content),
     info_items |-> lines_to_list(u.txt_info),
     tech_flags |-> lines_to_list(u.txt_tech),
     outcomes   |-> lines_to_list(u.txt_outcomes),
     notes      |-> strip(u.txt_notes),
     options    |-> Map(option_from_row, u.tree_opts)]

\* the check of _apply_current_node left out
id_collides_never(node_id, n, nodes) == FALSE

\* the check of _apply_current_node: the new id is another node's
id_collides(node_id, n, nodes) ==
    node_id # n.node_id /\ node_id \in Range(node_ids(nodes))

\* _apply_current_node checking the id only after the other fields are written
apply_current_node_late_check(s, silent) ==
    IF s.exc \/ s.cur = None THEN s
    ELSE IF s.cur >= Len(s.project.nodes) THEN [s EXCEPT !.exc = TRUE]
    ELSE
      LET n == s.project.nodes[s.cur + 1]
          node_id == sanitize_id(s.ui.var_node_id)
      IN  IF id_collides(node_id, n, s.project.nodes)
          THEN [s EXCEPT !.msg = IF silent THEN s.msg ELSE "ID existiert",
                         !.ui.var_node_id = n.node_id,
                         !.project.nodes[s.cur + 1] = node_from_ui(s.ui, n.node_id)]
          ELSE [s EXCEPT !.project.nodes[s.cur + 1] = node_from_ui(s.ui, node_id)]

\* _apply_current_node(silent)
apply_current_node(s, silent) ==
    IF s.exc \/ s.cur = None THEN s
    ELSE IF s.cur >= Len(s.project.nodes) THEN [s EXCEPT !.exc = TRUE]  \* IndexError
    ELSE
      LET n == s.project.nodes[s.cur + 1]
          node_id == sanitize_id(s.ui.var_node_id)
      IN  IF id_collides(node_id, n, s.project.nodes)
          THEN [s EXCEPT !.msg = IF silent THEN s.msg ELSE "ID existiert",
                         !.ui.var_node_id = n.node_id]
          ELSE [s EXCEPT !.project.nodes[s.cur + 1] = node_from_ui(s.ui, node_id)]

\* _reload_options_tree and the form part of _select_node
node_to_ui(u, n) ==
    [u EXCEPT
        !.var_node_id = n.node_id,
        !.var_node_title = n.title,
        !.txt_scene = n.scene,
        !.txt_dialog = n.dialog,
        !.txt_content = n.content,
        !.txt_info = list_to_lines(n.info_items),
        !.txt_tech = list_to_lines(n.tech_flags),
        !.txt_outcomes = list_to_lines(n.outcomes),
        !.txt_notes = n.notes,
        !.tree_opts = [i \in DOMAIN n.options |->
                          [label |-> n.options[i].label, target |-> n.options[i].target]]]

\* _select_node(idx)
select_node(s, idx) ==
    LET s1 == IF s.cur # None THEN apply_current_node(s, TRUE) ELSE s
    IN  IF s1.exc THEN s1
        ELSE IF idx >= Len(s1.project.nodes)
             THEN [s1 EXCEPT !.cur = idx, !.exc = TRUE]   \* IndexError
             ELSE [s1 EXCEPT !.cur = idx,
                             !.ui = node_to_ui(s1.ui, s1.project.nodes[idx + 1])]

\* the id loop of _add_node: the i of the first knoten-i not in existing, from i
RECURSIVE first_free(_, _)
first_free(existing, i) ==
    IF (S_knoten \o <<"-">> \o IntToStr(i)) \in existing
    THEN first_free(existing, i + 1)
    ELSE i

\* _add_node
add_node(s) ==
    LET s1 == apply_current_node(apply_meta_from_ui(s), TRUE)
        i == first_free(Range(node_ids(s1.project.nodes)), 1)
        new_node == Node(S_knoten \o <<"-">> \o IntToStr(i), S_Knoten \o IntToStr(i),
                         <<Option(S_Weiter, S_end)>>)
        s2 == [s1 EXCEPT !.project.nodes = Append(@, new_node)]
    IN  IF s1.exc THEN s1 ELSE select_node(s2, Len(s2.project.nodes) - 1)

Max(a, b) == IF a >= b THEN a ELSE b

RemoveAt(seq, i) == SubSeq(seq, 1, i - 1) \o SubSeq(seq, i + 1, Len(seq))

\* _delete_node refusing only an empty project
delete_node_off_by_one(s, confirm) ==
    IF s.cur = None THEN s
    ELSE IF Len(s.project.nodes) < 1 THEN [s EXCEPT !.msg = "Nein."]
    ELSE IF s.cur >= Len(s.project.nodes) THEN [s EXCEPT !.exc = TRUE]
    ELSE IF ~confirm THEN s
    ELSE select_node([s EXCEPT !.project.nodes = RemoveAt(@, s.cur + 1),
                               !.cur = None],
                     Max(0, s.cur - 1))

\* _delete_node taking the choices to the deleted node out of the other nodes
delete_node_unlinking(s, confirm) ==
    IF s.cur = None THEN s
    ELSE IF Len(s.project.nodes) <= 1 THEN [s EXCEPT !.msg = "Nein."]
    ELSE IF s.cur >= Len(s.project.nodes) THEN [s EXCEPT !.exc = TRUE]
    ELSE IF ~confirm THEN s
    ELSE LET gone == s.project.nodes[s.cur + 1].node_id
             kept == RemoveAt(s.project.nodes, s.cur + 1)
             unlinked == [i \in DOMAIN kept |->
                            [kept[i] EXCEPT !.options =
                                SelectSeq(@, LAMBDA opt : opt.target # gone)]]
         IN  select_node([s EXCEPT !.project.nodes = unlinked, !.cur = None],
                         Max(0, s.cur - 1))

\* _delete_node; confirm is the answer to askyesno
delete_node(s, confirm) ==
    IF s.cur = None THEN s
    ELSE IF Len(s.project.nodes) <= 1 THEN [s EXCEPT !.msg = "Nein."]
    ELSE IF s.cur >= Len(s.project.nodes) THEN [s EXCEPT !.exc = TRUE]   \* IndexError
    ELSE IF ~confirm THEN s
    ELSE select_node([s EXCEPT !.project.nodes = RemoveAt(@, s.cur + 1),
                               !.cur = None],
                     Max(0, s.cur - 1))

Swap(seq, i, j) == [seq EXCEPT ![i] = seq[j], ![j] = seq[i]]

\* _move_node(direction)
move_node(s, direction) ==
    LET idx == s.cur
        new_idx == idx + direction
        s1 == apply_current_node(s, TRUE)
    IN  IF s.cur = None THEN s
        ELSE IF new_idx < 0 \/ new_idx >= Len(s.project.nodes) THEN s
        ELSE IF s1.exc THEN s1
        ELSE select_node([s1 EXCEPT !.project.nodes = Swap(@, idx + 1, new_idx + 1)],
                         new_idx)

(***************************************************************************)
(* HTML renderer.  The document is kept as its parts, in document order;   *)
(* every text is the escaped text the f-strings insert.                    *)
(***************************************************************************)
S_Uebersicht == <<"U_UML","b","e","r","s","i","c","h","t">>
S_QuestPraesentator == <<"Q","u","e","s","t","-","P","r","a_uml","s","e","n","t","a","t","o","r",":"," ">>

Link(href, label) == [href |-> href, label |-> label]

\* render_nav without the leading link to the overview
render_nav_no_overview(nodes) ==
    [i \in DOMAIN nodes |->
        Link(html_escape(nodes[i].node_id),
             html_escape(Or(nodes[i].title, nodes[i].node_id)))]

\* render_nav
render_nav(nodes) ==
    <<Link(S_top, S_Uebersicht)>> \o
    [i \in DOMAIN nodes |->
        Link(html_escape(nodes[i].node_id),
             html_escape(Or(nodes[i].title, nodes[i].node_id)))]

\* one <li> of render_options; unknown is the "(Ziel unbekannt)" marker
render_option(opt, ids) ==
    LET label == html_escape(Or(strip(opt.label), S_Option))
        target == strip(opt.target)
    IN  IF target \notin Range(ids)
        THEN [href |-> html_escape(Or(target, S_top)), label |-> label, unknown |-> TRUE]
        ELSE [href |-> html_escape(target), label |-> label, unknown |-> FALSE]

\* render_options
render_options(node, ids) ==
    IF node.options = << >>
    THEN [kind |-> "no_options"]
    ELSE [kind |-> "options",
          items |-> [i \in DOMAIN node.options |-> render_option(node.options[i], ids)]]

\* render_list_block / render_details: "" for no items
render_items(kind, items) ==
    IF items = << >> THEN << >>
    ELSE <<[kind |-> kind, items |-> Map(html_escape, items)]>>

TextBlock(kind, text) ==
    IF text = << >> THEN << >> ELSE <<[kind |-> kind, text |-> html_escape(text)]>>

\* render_node_section
render_node_section(node, ids) ==
    [id |-> html_escape(node.node_id),
     h2 |-> html_escape(Or(strip(node.title), node.node_id)),
     parts |->
        TextBlock("scene", strip(node.scene)) \o
        TextBlock("content", strip(node.content)) \o
        TextBlock("dialog", strip(node.dialog)) \o
        render_items("info", node.info_items) \o
        render_items("tech", node.tech_flags) \o
        render_items("outcomes", node.outcomes) \o
        <<render_options(node, ids)>> \o
        TextBlock("notes", strip(node.notes)) \o
        <<[kind |-> "back", href |-> S_top]>>]

\* render_meta_list
render_meta_list(meta) ==
    LET items == <<meta.quest_giver, meta.prerequisite, meta.quest_type,
                   meta.meta_short, meta.rewards, meta.important_flags>>
    IN  [i \in DOMAIN items |-> html_escape(Or(strip(items[i]), S_dash))]

\* render_html reading the clock whatever the version stamp is
render_html_always_now(p, include_js, now) ==
    [title |-> html_escape(strip(S_QuestPraesentator \o p.meta.quest_name)),
     h1 |-> html_escape(Or(strip(p.meta.quest_name), S_dash)),
     region |-> html_escape(Or(strip(p.meta.region), S_dash)),
     nav |-> render_nav(p.nodes),
     top |-> [short |-> html_escape(Or(strip(p.meta.short_description), S_dash)),
              meta_list |-> render_meta_list(p.meta),
              start |-> html_escape(IF p.nodes # << >> THEN p.nodes[1].node_id ELSE S_top)],
     sections |-> [i \in DOMAIN p.nodes |-> render_node_section(p.nodes[i], node_ids(p.nodes))],
     version |-> html_escape(now),
     js |-> include_js]

\* render_html; now is the value now_stamp() would return
render_html(p, include_js, now) ==
    LET meta == p.meta
        nodes == p.nodes
        ids == node_ids(nodes)
    IN  [title |-> html_escape(strip(S_QuestPraesentator \o meta.quest_name)),
         h1 |-> html_escape(Or(strip(meta.quest_name), S_dash)),
         region |-> html_escape(Or(strip(meta.region), S_dash)),
         nav |-> render_nav(nodes),
         top |-> [short |-> html_escape(Or(strip(meta.short_description), S_dash)),
                  meta_list |-> render_meta_list(meta),
                  start |-> html_escape(IF nodes # << >> THEN nodes[1].node_id ELSE S_top)],
         sections |-> [i \in DOMAIN nodes |-> render_node_section(nodes[i], ids)],
         version |-> html_escape(Or(strip(meta.version_stamp), now)),
         js |-> include_js]

(***************************************************************************)
(* Projekt speichern/laden, HTML Export.                                   *)
(***************************************************************************)
\* _save_project up to the file dialog
save_project(s) == apply_current_node(apply_meta_from_ui(s), TRUE)

\* _load_project without the default node
loaded_project_no_default(data) == project_from_jsonable(data)

\* what _load_project assigns to self.project
loaded_project(data) ==
    LET p == project_from_jsonable(data)
    IN  IF p.nodes = << >>
        THEN [p EXCEPT !.nodes = <<Node(S_start, S_Start, << >>)>>]
        ELSE p

\* _load_project with a path chosen; data is what json.load returns when parsed holds,
\* and json.load raises when it does not
load_project(s, data, parsed, now) ==
    IF ~parsed THEN [s EXCEPT !.msg = "Fehler: Konnte nicht laden"]
    ELSE
      LET s1 == [s EXCEPT !.project = loaded_project(data)]
          s2 == select_node(load_meta_to_ui(s1, now), 0)
      IN  IF s2.exc
          THEN [s2 EXCEPT !.exc = FALSE, !.msg = "Fehler: Konnte nicht laden"]
          ELSE [s2 EXCEPT !.msg = "Geladen"]

\* the duplicate check comparing the list with itself
HasDuplicates_same_list(ids) == Len(ids) # Len(ids)

HasDuplicates(ids) == Len(ids) # Cardinality(Range(ids))

\* _export_html up to the duplicate check
export_check(s) ==
    LET s1 == apply_current_node(apply_meta_from_ui(s), TRUE)
    IN  IF s1.exc THEN s1
        ELSE IF HasDuplicates(node_ids(s1.project.nodes))
        THEN [s1 EXCEPT !.msg = "Fehler: doppelte Knoten-IDs"]
        ELSE s1

(***************************************************************************)
(* Inputs: what the user types and picks, the files opened, the clock.     *)
(***************************************************************************)
\* values of now_stamp()
Stamps == { <<"2","0","2","6","-","0","1","-","0","1"," ","1","0",":","0","0">> }

\* texts typed into the id field
RawIds == { <<" ","S","t","a","r","t"," ">>, <<"k","n","o","t","e","n","-","1">> }

\* texts typed into the title field
Titles == { <<"<","b",">","&">> }

\* texts typed into the Text widgets of the node form
TextFields == {"txt_info"}
Texts == { <<" ","a","\n","\n","b"," ">> }

\* texts typed into the meta form
MetaFields == {"var_version"}
MetaTexts == { << >> }

\* what the option dialog is closed with
Labels == { <<"G","o">> }
RawTargets == { <<" ","M","i","s","s","i","n","g"," ">> }

\* documents json.load returns
Doc_empty == [k \in {} |-> << >>]
Doc_nonodes == [nodes |-> << >>]
Doc_dup ==
    [nodes |-> << [node_id |-> S_start, title |-> <<"A">>],
                  [node_id |-> S_start, title |-> <<"B">>,
                   options |-> <<[label |-> <<"G","o">>, target |-> S_end]>>] >>]
Doc_raw ==
    [meta |-> [quest_name |-> <<"A","r","d","e","a">>, version_stamp |-> <<"v","1">>],
     nodes |-> << [node_id |-> <<"B","a","d"," ","I","d">>, title |-> << >>, scene |-> <<" ","s"," ">>,
                   info_items |-> << <<"A">> >>,
                   options |-> <<[label |-> <<"G","o">>, target |-> <<" ","M","i","s","s","i","n","g"," ">>],
                                 [target |-> S_start]>>],
                  [title |-> <<"B">>] >>]
Docs == {Doc_empty, Doc_nonodes, Doc_dup, Doc_raw}

\* characters of the raw texts handed to sanitize_id by the harness
SanChars == {"a", "A", "1", "_", "-", " ", "!", "a_uml", "A_UML", "sz"}

RECURSIVE StringsUpTo(_, _)
StringsUpTo(chars, n) ==
    IF n = 0 THEN { << >> }
    ELSE LET shorter == StringsUpTo(chars, n - 1)
         IN  shorter \cup { Append(s, c) : s \in shorter, c \in chars }

SanInputs == StringsUpTo(SanChars, MaxLen)

\* projects handed to the codec by the harness
CodecOptions == { << >>, <<Option(<<"G","o">>, S_end)>>,
                  <<Option(<< >>, <<" ","M","i","s","s","i","n","g"," ">>), Option(<<"G","o">>, S_end)>> }
CodecNodes ==
    [node_id : {S_start, << >>}, title : {<<"A">>}, scene : {<<" ","s"," ">>},
     dialog : {<< >>}, content : {<<"B">>}, info_items : {<< >>, << <<"A">>, <<"B">> >>},
     tech_flags : {<< >>, << <<"A">> >>}, outcomes : {<< >>}, notes : {<< >>},
     options : CodecOptions]
CodecMetas == { QuestMeta, [QuestMeta EXCEPT !.quest_name = << >>, !.version_stamp = <<"v","1">>] }

RECURSIVE SeqsUpTo(_, _)
SeqsUpTo(S, n) ==
    IF n = 0 THEN { << >> }
    ELSE LET shorter == SeqsUpTo(S, n - 1)
         IN  shorter \cup { Append(s, x) : s \in shorter, x \in S }

CodecInputs ==
    { QuestProject(m, ns) : m \in CodecMetas, ns \in SeqsUpTo(CodecNodes, MaxNodes) \ { << >> } }

\* projects and clock values handed to render_html by the harness
T_tag == <<"<","b",">","&","\"","x","\"","<","/","b",">">>
RenderStamps == { <<"2","0","2","6","-","0","1","-","0","1"," ","1","0",":","0","0">>,
                  <<"2","0","2","6","-","0","1","-","0","1"," ","1","0",":","0","1">> }
RenderNodes ==
    { [node_id |-> S_start, title |-> T_tag, scene |-> <<" ","a","<","b"," ">>,
       dialog |-> <<"&","a","m","p",";">>, content |-> <<">">>,
       info_items |-> << <<"<","i",">">> >>, tech_flags |-> << <<"&">> >>,
       outcomes |-> << <<"a",">","b">> >>, notes |-> <<"<","&",">">>,
       options |-> <<Option(<<"<","G","o",">">>, S_knoten \o <<"-","1">>),
                     Option(<<" ">>, <<" ">>)>>],
      Node(S_knoten \o <<"-","1">>, Empty, <<Option(<<"G","o">>, S_end)>>),
      Node(<<"a","&","b">>, <<" ">>, << >>) }
RenderMetas ==
    { [QuestMeta EXCEPT !.quest_name = <<"A","&","B">>, !.version_stamp = <<" ","v","<","1",">"," ">>],
      [QuestMeta EXCEPT !.quest_name = << >>, !.version_stamp = <<" ">>],
      [QuestMeta EXCEPT !.region = <<"<","R",">">>, !.rewards = <<"&">>] }
RenderInputs ==
    [project : { QuestProject(m, ns) : m \in RenderMetas, ns \in SeqsUpTo(RenderNodes, MaxNodes) },
     include_js : BOOLEAN, now : RenderStamps, now2 : RenderStamps]

(***************************************************************************)
(* Initial state: QuestEditorApp.__init__                                  *)
(***************************************************************************)
BlankUi ==
    [var_quest_name |-> Empty, var_region |-> Empty, var_quest_giver |-> Empty,
     var_prereq |-> Empty, var_type |-> Empty, var_version |-> Empty,
     txt_short |-> Empty, txt_meta_short |-> Empty, txt_rewards |-> Empty,
     txt_imp_flags |-> Empty,
     var_node_id |-> Empty, var_node_title |-> Empty, txt_scene |-> Empty,
     txt_content |-> Empty, txt_dialog |-> Empty, txt_info |-> Empty,
     txt_tech |-> Empty, txt_outcomes |-> Empty, txt_notes |-> Empty,
     tree_opts |-> << >>]

\* what a handler has shown and written: the message box (msg), an exception that
\* left it (exc), the file written (file), the node id its yes/no dialog named (asked)
Idle(op) == [op |-> op, msg |-> NoMsg, exc |-> FALSE, file |-> << >>, asked |-> << >>]

init_app(now) ==
    LET p == QuestProject(QuestMeta, <<Node(S_start, S_StartArdea, << >>)>>)
    IN  select_node(load_meta_to_ui(State(p, None, BlankUi), now), 0)

HarnessIdle == pc = "idle" /\ arg = << >> /\ res = << >> /\ res2 = << >>

InitApp ==
    \E now \in Stamps :
        LET s == init_app(now)
        IN  /\ project = s.project
            /\ current_node_index = s.cur
            /\ ui = s.ui
            /\ out = Idle("init")

Init == InitApp /\ HarnessIdle

(***************************************************************************)
(* Actions: one per handler, and one per kind of edit in the form.         *)
(***************************************************************************)
Here == State(project, current_node_index, ui)

\* the handler ends in state s, having written the files in file and named the
\* node ids in asked in a yes/no dialog
CommitAsked(s, op, file, asked) ==
    /\ project' = s.project
    /\ current_node_index' = s.cur
    /\ ui' = s.ui
    /\ out' = [op |-> op, msg |-> s.msg, exc |-> s.exc, file |-> file, asked |-> asked]
    /\ UNCHANGED <<pc, arg, res, res2>>

\* the handler ends in state s, having written the files in file
Commit(s, op, file) == CommitAsked(s, op, file, << >>)

Edit(u) ==
    /\ ui' = u
    /\ out' = Idle("edit")
    /\ UNCHANGED <<project, current_node_index, pc, arg, res, res2>>

TypeNodeId(raw) == Edit([ui EXCEPT !.var_node_id = raw])

TypeTitle(t) == Edit([ui EXCEPT !.var_node_title = t])

TypeText(f, text) == Edit([ui EXCEPT ![f] = text])

TypeMeta(f, text) == Edit([ui EXCEPT ![f] = text])

\* _id_from_title
IdFromTitle ==
    /\ strip(ui.var_node_title) # << >>
    /\ Edit([ui EXCEPT !.var_node_id = sanitize_id(strip(ui.var_node_title))])

\* _add_option
AddOption ==
    /\ Len(ui.tree_opts) < MaxOpts
    /\ Edit([ui EXCEPT !.tree_opts = Append(@, [label |-> S_NeueOption, target |-> S_top])])

\* the rows of the tree from the i-th on, without those in sel
RECURSIVE RemoveRows(_, _, _)
RemoveRows(rows, sel, i) ==
    IF i > Len(rows) THEN << >>
    ELSE (IF i \in sel THEN << >> ELSE <<rows[i]>>) \o RemoveRows(rows, sel, i + 1)

\* _remove_option with the rows sel selected
RemoveOption(sel) ==
    /\ sel # {}
    /\ Edit([ui EXCEPT !.tree_opts =
                RemoveRows(@, sel, 1)])

\* _edit_option, closed with OK, on row i
EditOption(i, label, target) ==
    Edit([ui EXCEPT !.tree_opts[i] =
            [label |-> strip(label), target |-> Or(sanitize_id(strip(target)), S_top)]])

\* _on_node_select with row idx of the list box selected
OnNodeSelect(idx) == Commit(select_node(Here, idx), "select", << >>)

\* _add_node
AddNode ==
    /\ Len(project.nodes) < MaxNodes
    /\ Commit(add_node(Here), "add", << >>)

\* _delete_node; askyesno names the id of the selected node
DeleteNode(confirm) ==
    CommitAsked(delete_node(Here, confirm), "delete", << >>,
                IF current_node_index # None /\ Len(project.nodes) > 1
                   /\ current_node_index < Len(project.nodes)
                THEN <<project.nodes[current_node_index + 1].node_id>>
                ELSE << >>)

\* _move_node
MoveNode(direction) == Commit(move_node(Here, direction), "move", << >>)

\* the button "Aenderungen uebernehmen": _apply_current_node()
ApplyCurrentNode == Commit(apply_current_node(Here, FALSE), "apply", << >>)

\* _save_project; written: the file could be written
SaveProject(written) ==
    LET s == save_project(Here)
    IN  IF s.exc THEN Commit(s, "save", << >>)
        ELSE IF written
        THEN Commit([s EXCEPT !.msg = "Gespeichert"], "save",
                    <<project_to_jsonable(s.project)>>)
        ELSE Commit([s EXCEPT !.msg = "Fehler: Konnte nicht speichern"], "save", << >>)

\* _save_project with the file dialog cancelled
SaveCancelled == Commit(save_project(Here), "save", << >>)

\* _load_project; data is what json.load returns
LoadProject(data, now) == Commit(load_project(Here, data, TRUE, now), "load", << >>)

\* _load_project of a file json.load raises on
LoadMalformed == Commit(load_project(Here, << >>, FALSE, CHOOSE now \in Stamps : TRUE), "load", << >>)

\* _load_project with the file dialog cancelled
LoadCancelled == Commit(Here, "load", << >>)

\* _export_html; written: the file could be written
ExportHtml(written, now) ==
    LET s == export_check(Here)
    IN  IF s.exc \/ s.msg # NoMsg THEN Commit(s, "export", << >>)
        ELSE IF written
        THEN Commit([s EXCEPT !.msg = "Export fertig"], "export",
                    <<render_html(s.project, TRUE, now)>>)
        ELSE Commit([s EXCEPT !.msg = "Fehler: Konnte HTML nicht schreiben"],
                    "export", << >>)

\* _export_html with the file dialog cancelled
ExportCancelled == Commit(export_check(Here), "export", << >>)

IdEdit == \E raw \in RawIds : TypeNodeId(raw)

TitleEdit == \E t \in Titles : TypeTitle(t)

TextEdit ==
    \/ \E f \in TextFields, text \in Texts : TypeText(f, text)
    \/ IdFromTitle

OptionEdit ==
    \/ AddOption
    \/ \E sel \in SUBSET DOMAIN ui.tree_opts : RemoveOption(sel)
    \/ \E i \in DOMAIN ui.tree_opts, label \in Labels, target \in RawTargets :
          EditOption(i, label, target)

MetaEdit == \E f \in MetaFields, text \in MetaTexts : TypeMeta(f, text)

NodeOp ==
    \/ \E idx \in 0 .. Len(project.nodes) - 1 : OnNodeSelect(idx)
    \/ AddNode
    \/ \E confirm \in BOOLEAN : DeleteNode(confirm)
    \/ \E direction \in {-1, 1} : MoveNode(direction)
    \/ ApplyCurrentNode

FileOp ==
    \/ \E written \in BOOLEAN : SaveProject(written)
    \/ SaveCancelled
    \/ \E data \in Docs, now \in Stamps : LoadProject(data, now)
    \/ LoadMalformed
    \/ LoadCancelled
    \/ \E written \in BOOLEAN, now \in Stamps : ExportHtml(written, now)
    \/ ExportCancelled

(***************************************************************************)
(* The harness for the pure functions: sanitize_id applied once and twice, *)
(* and a project encoded and decoded again.                                *)
(***************************************************************************)
InitSan == InitApp /\ pc = "san" /\ arg \in SanInputs /\ res = << >> /\ res2 = << >>

Sanitize ==
    /\ pc = "san"
    /\ res' = sanitize_id(arg)
    /\ pc' = "sanitized"
    /\ UNCHANGED <<project, current_node_index, ui, out, arg, res2>>

SanitizeAgain ==
    /\ pc = "sanitized"
    /\ res2' = sanitize_id(res)
    /\ pc' = "resanitized"
    /\ UNCHANGED <<project, current_node_index, ui, out, arg, res>>

NextSan == Sanitize \/ SanitizeAgain

SpecSan == InitSan /\ [][NextSan]_vars

InitCodec == InitApp /\ pc = "codec" /\ arg \in CodecInputs /\ res = << >> /\ res2 = << >>

Encode ==
    /\ pc = "codec"
    /\ res' = project_to_jsonable(arg)
    /\ pc' = "encoded"
    /\ UNCHANGED <<project, current_node_index, ui, out, arg, res2>>

Decode ==
    /\ pc = "encoded"
    /\ res2' = project_from_jsonable(res)
    /\ pc' = "decoded"
    /\ UNCHANGED <<project, current_node_index, ui, out, arg, res>>

NextCodec == Encode \/ Decode

SpecCodec == InitCodec /\ [][NextCodec]_vars

\* render_html called twice on one project, the clock read at now and then at now2
InitRender == InitApp /\ pc = "render" /\ arg \in RenderInputs /\ res = << >> /\ res2 = << >>

Render ==
    /\ pc = "render"
    /\ res' = render_html(arg.project, arg.include_js, arg.now)
    /\ pc' = "rendered"
    /\ UNCHANGED <<project, current_node_index, ui, out, arg, res2>>

RenderAgain ==
    /\ pc = "rendered"
    /\ res2' = render_html(arg.project, arg.include_js, arg.now2)
    /\ pc' = "rendered2"
    /\ UNCHANGED <<project, current_node_index, ui, out, arg, res>>

NextRender == Render \/ RenderAgain

SpecRender == InitRender /\ [][NextRender]_vars

(***************************************************************************)
(* Specifications of the editor.                                           *)
(***************************************************************************)
\* the node operations, with the id and the title typed
NextEdit == IdEdit \/ TitleEdit \/ NodeOp

SpecEdit == Init /\ [][NextEdit]_vars

\* the node operations, with the id and the title typed and the option tree edited
NextForm == IdEdit \/ TitleEdit \/ OptionEdit \/ NodeOp

SpecForm == Init /\ [][NextForm]_vars

\* the node operations and the file operations, with the id typed
Next == IdEdit \/ NodeOp \/ FileOp

Spec == Init /\ [][Next]_vars

(***************************************************************************)
(* Properties.                                                             *)
(***************************************************************************)
Nodes == project.nodes

IdAlphabet ==
    {"a","b","c","d","e","f","g","h","i","j","k","l","m","n","o","p","q","r","s","t",
     "u","v","w","x","y","z","0","1","2","3","4","5","6","7","8","9","_","-"}

ValidId(id) == id # << >> /\ \A k \in DOMAIN id : id[k] \in IdAlphabet

\* the selected index addresses a node
Selected == current_node_index \in 0 .. Len(Nodes) - 1

\* no two nodes of the project have the same id
IdsDistinct ==
    \A i, j \in DOMAIN Nodes : i # j => Nodes[i].node_id # Nodes[j].node_id

\* C1: under the node operations (add, delete, move, select, apply, with any id
\* typed), no two nodes of the project have the same id.
C1_UniqueIds == IdsDistinct

\* C1 witness: with two nodes in the project, a rename to the other node's id
\* has just been refused.
C1_Witness ==
    /\ out.op = "apply" /\ out.msg = "ID existiert"
    /\ Len(Nodes) = 2

\* the id typed into the form sanitizes to the id of a node other than the selected one
RenameCollides ==
    /\ Selected
    /\ \E j \in DOMAIN Nodes :
          /\ j # current_node_index + 1
          /\ Nodes[j].node_id = sanitize_id(ui.var_node_id)

C3_DeleteLastNodeRejected ==
    [][(Len(Nodes) = 1 /\ \E confirm \in BOOLEAN : DeleteNode(confirm))
         => (/\ project' = project
             /\ current_node_index' = current_node_index
             /\ out'.msg = "Nein.")]_vars

\* C3 witness: the deletion of the only node has just been refused.
C3_Witness == out.op = "delete" /\ out.msg = "Nein." /\ Len(Nodes) = 1

C5_IdsSanitized == \A i \in DOMAIN Nodes : ValidId(Nodes[i].node_id)

\* C6: decoding the encoding of a project gives the project back, field for field:
\* the meta data, the nodes in their order, every field of every node and the
\* options of every node in their order.
C6_RoundTrip == pc = "decoded" => res2 = arg

\* C6 witness: a project of two different nodes, the first with two options, has
\* been encoded and decoded.
C6_Witness ==
    /\ pc = "decoded"
    /\ Len(arg.nodes) = 2
    /\ arg.nodes[1] # arg.nodes[2]
    /\ Len(arg.nodes[1].options) = 2
    /\ arg.nodes[1].tech_flags # arg.nodes[1].outcomes

\* the raw text holds whitespace, punctuation and "-" only
NothingRemains(raw) == \A k \in DOMAIN raw : raw[k] \in {" ", "!", "-"}

\* C7: sanitize_id returns, for every raw text, a non-empty id made of a-z, 0-9,
\* "_" and "-" only, and the literal "node" when nothing of the text remains.
C7_SanitizeValid ==
    pc \in {"sanitized", "resanitized"}
       => /\ ValidId(res)
          /\ NothingRemains(arg) => res = S_node

\* C7 witness: a text of punctuation, blanks and "-" has been sanitized to "node".
C7_Witness ==
    /\ pc = "sanitized"
    /\ Len(arg) = 3 /\ NothingRemains(arg) /\ "!" \in Range(arg)
    /\ res = S_node

\* C8: sanitizing a sanitized id changes nothing.
C8_SanitizeIdempotent == pc = "resanitized" => res2 = res

\* C8 witness: a text that sanitize_id had to change, other than to the fallback,
\* has been sanitized twice.
C8_Witness ==
    /\ pc = "resanitized"
    /\ res # arg /\ res # S_node
    /\ "-" \in Range(res)

\* the part of a rendered section that holds the options
OptionsPart(section) ==
    CHOOSE part \in Range(section.parts) : part.kind \in {"options", "no_options"}

\* C9: in an exported document a choice carries the marker "(Ziel unbekannt)"
\* exactly when its target is neither the id of a node of the project nor one of
\* the reserved anchors "top" and "end".
C9_MarkerIffUnknown ==
    (out.op = "export" /\ out.file # << >>)
       => \A i \in DOMAIN Nodes : \A j \in DOMAIN Nodes[i].options :
             LET target == strip(Nodes[i].options[j].target)
                 item == OptionsPart(out.file[1].sections[i]).items[j]
             IN  item.unknown <=>
                    /\ \A k \in DOMAIN Nodes : Nodes[k].node_id # target
                    /\ target \notin {S_top, S_end}

\* C10: an export on a project in which two nodes share an id writes no document:
\* it ends with the message about duplicate ids (or with the exception of an
\* index outside the node list), and every document written shows one section
\* per node under pairwise distinct ids.
C10_NoExportWithDuplicates ==
    out.op = "export"
       => /\ ~IdsDistinct
             => /\ out.file = << >>
                /\ out.msg = "Fehler: doppelte Knoten-IDs" \/ out.exc
          /\ out.file # << >>
             => /\ Len(out.file[1].sections) = Len(Nodes)
                /\ \A i, j \in DOMAIN Nodes :
                      i # j => out.file[1].sections[i].id # out.file[1].sections[j].id

\* C10 witness: an export has just been refused because of duplicate ids.
C10_Witness ==
    /\ out.op = "export" /\ out.msg = "Fehler: doppelte Knoten-IDs"
    /\ out.file = << >>
    /\ ~IdsDistinct

\* C11: two calls of render_html on one project with one include_js return the
\* same document whenever the version stamp is non-empty after strip(), whatever
\* the clock says, and the footer then shows the stripped stamp; with an empty
\* stamp the footer shows the clock and nothing else of the document depends on it.
C11_RenderDeterministic ==
    pc = "rendered2"
       => LET stamp == strip(arg.project.meta.version_stamp)
          IN  /\ stamp # << >>
                 => res = res2 /\ res.version = html_escape(stamp)
              /\ stamp = << >>
                 => /\ res.version = html_escape(arg.now)
                    /\ res2.version = html_escape(arg.now2)
                    /\ [res EXCEPT !.version = << >>] = [res2 EXCEPT !.version = << >>]

\* C11 witness: a project with a stamp rendered twice at different times.
C11_Witness ==
    /\ pc = "rendered2"
    /\ arg.now # arg.now2
    /\ strip(arg.project.meta.version_stamp) # << >>
    /\ Len(arg.project.nodes) = 2
    /\ res = res2

\* the text with "&", "<" and ">" each replaced by its entity, character by character
RECURSIVE Escaped(_)
Escaped(s) ==
    IF s = << >> THEN << >>
    ELSE (CASE Head(s) = "&" -> <<"&","a","m","p",";">>
            [] Head(s) = "<" -> <<"&","l","t",";">>
            [] Head(s) = ">" -> <<"&","g","t",";">>
            [] OTHER -> <<Head(s)>>) \o Escaped(Tail(s))

\* the texts of a rendered part, each with the user's text it was made from
PartTexts(part, node) ==
    CASE part.kind = "scene" -> { <<part.text, strip(node.scene)>> }
      [] part.kind = "content" -> { <<part.text, strip(node.content)>> }
      [] part.kind = "dialog" -> { <<part.text, strip(node.dialog)>> }
      [] part.kind = "notes" -> { <<part.text, strip(node.notes)>> }
      [] part.kind = "info" -> { <<part.items[k], node.info_items[k]>> : k \in DOMAIN part.items }
      [] part.kind = "tech" -> { <<part.items[k], node.tech_flags[k]>> : k \in DOMAIN part.items }
      [] part.kind = "outcomes" -> { <<part.items[k], node.outcomes[k]>> : k \in DOMAIN part.items }
      [] part.kind = "options" ->
            { <<part.items[k].label, Or(strip(node.options[k].label), S_Option)>> :
                 k \in DOMAIN part.items }
      [] OTHER -> {}

\* every text of the rendered document doc, with the text of project p it was made from
RenderedTexts(doc, p) ==
    { <<doc.title, strip(S_QuestPraesentator \o p.meta.quest_name)>>,
      <<doc.h1, Or(strip(p.meta.quest_name), S_dash)>>,
      <<doc.region, Or(strip(p.meta.region), S_dash)>>,
      <<doc.top.short, Or(strip(p.meta.short_description), S_dash)>>,
      <<doc.top.meta_list[1], Or(strip(p.meta.quest_giver), S_dash)>>,
      <<doc.top.meta_list[2], Or(strip(p.meta.prerequisite), S_dash)>>,
      <<doc.top.meta_list[3], Or(strip(p.meta.quest_type), S_dash)>>,
      <<doc.top.meta_list[4], Or(strip(p.meta.meta_short), S_dash)>>,
      <<doc.top.meta_list[5], Or(strip(p.meta.rewards), S_dash)>>,
      <<doc.top.meta_list[6], Or(strip(p.meta.important_flags), S_dash)>> }
    \cup { <<doc.nav[i + 1].label, Or(p.nodes[i].title, p.nodes[i].node_id)>> : i \in DOMAIN p.nodes }
    \cup { <<doc.sections[i].h2, Or(strip(p.nodes[i].title), p.nodes[i].node_id)>> : i \in DOMAIN p.nodes }
    \cup UNION { UNION { PartTexts(doc.sections[i].parts[k], p.nodes[i]) :
                            k \in DOMAIN doc.sections[i].parts } : i \in DOMAIN p.nodes }

\* C12: every text of the user that render_html inserts (quest name, region, meta
\* values, titles, scene, content, dialog, list items, notes, choice labels)
\* appears with each "&", "<" and ">" replaced by "&amp;", "&lt;" and "&gt;",
\* once: no "<" or ">" of the user is left and no entity is escaped again.
C12_TextsEscaped ==
    pc \in {"rendered", "rendered2"}
       => \A pair \in RenderedTexts(res, arg.project) :
             /\ pair[1] = Escaped(pair[2])
             /\ "<" \notin Range(pair[1]) /\ ">" \notin Range(pair[1])

\* C12 witness: the title <b>&"x"</b> has been rendered as &lt;b&gt;&amp;"x"&lt;/b&gt;.
C12_Witness ==
    /\ pc = "rendered"
    /\ Len(arg.project.nodes) >= 1
    /\ arg.project.nodes[1].title = T_tag
    /\ res.sections[1].h2 =
          <<"&","l","t",";","b","&","g","t",";","&","a","m","p",";","\"","x","\"",
            "&","l","t",";","/","b","&","g","t",";">>
    /\ res.nav[2].label = res.sections[1].h2

\* the navigation and the sections of document doc are those of the nodes, in their order
InNodeOrder(doc, nodes) ==
    /\ Len(doc.nav) = Len(nodes) + 1
    /\ doc.nav[1] = Link(S_top, S_Uebersicht)
    /\ Len(doc.sections) = Len(nodes)
    /\ \A i \in DOMAIN nodes :
          /\ doc.nav[i + 1] = Link(html_escape(nodes[i].node_id),
                                   html_escape(Or(nodes[i].title, nodes[i].node_id)))
          /\ doc.sections[i].id = html_escape(nodes[i].node_id)
          /\ doc.sections[i].h2 = html_escape(Or(strip(nodes[i].title), nodes[i].node_id))

\* an exported document lists the nodes of the project in their order
ExportInNodeOrder ==
    (out.op = "export" /\ out.file # << >>) => InNodeOrder(out.file[1], Nodes)

\* _move_node(-1) on the second node of two puts it first in the next render, and
\* the other node second (named by its id where ids are sanitized and distinct)
MoveUpSwapsRender ==
    (Len(Nodes) = 2 /\ current_node_index = 1 /\ out'.op = "move" /\ MoveNode(-1))
       => LET doc == render_html(project', TRUE, CHOOSE now \in Stamps : TRUE)
              moved == project'.nodes[1].node_id
          IN  /\ moved \in {Nodes[2].node_id, sanitize_id(ui.var_node_id)}
              /\ InNodeOrder(doc, project'.nodes)
              /\ doc.nav[2].href = html_escape(moved)
              /\ doc.sections[1].id = html_escape(moved)
              /\ (IdsDistinct /\ C5_IdsSanitized)
                    => /\ doc.nav[3].href = html_escape(Nodes[1].node_id)
                       /\ doc.sections[2].id = html_escape(Nodes[1].node_id)

\* C13: the navigation of a rendered document is the link to "top" followed by
\* one link per node, and its sections are one per node, both in the order of
\* project.nodes; after _move_node(-1) on the second node of a two-node project
\* the next render lists that node's link and section before the other's.
C13_RenderInNodeOrder == []ExportInNodeOrder /\ [][MoveUpSwapsRender]_vars

\* C13 witness: an export lists the added node "Knoten 1" before the initial node:
\* the second node has been moved up.
C13_Witness ==
    /\ out.op = "export" /\ out.file # << >>
    /\ Len(Nodes) = 2
    /\ out.file[1].nav[2] = Link(S_knoten \o <<"-","1">>, S_Knoten \o <<"1">>)
    /\ out.file[1].nav[3] = Link(S_start, S_StartArdea)
    /\ out.file[1].sections[1].id = S_knoten \o <<"-","1">>
    /\ out.file[1].sections[2].id = S_start

\* the id and the title _add_node gives the N-th generated node
KnotenId(N) == S_knoten \o <<"-">> \o IntToStr(N)
KnotenTitle(N) == S_Knoten \o IntToStr(N)

\* _add_node appends one node knoten-N, N the smallest not in use, and selects it
AddAppends ==
    (out'.op = "add" /\ AddNode)
       => LET after == project'.nodes
              existing == { after[i].node_id : i \in DOMAIN Nodes }
          IN  /\ Len(after) = Len(Nodes) + 1
              /\ \E N \in 1 .. Len(Nodes) + 1 :
                    /\ after[Len(after)] = Node(KnotenId(N), KnotenTitle(N), <<Option(S_Weiter, S_end)>>)
                    /\ KnotenId(N) \notin existing
                    /\ \A k \in 1 .. N - 1 : KnotenId(k) \in existing
              /\ \A i \in DOMAIN Nodes :
                    \/ after[i] = Nodes[i]
                    \/ /\ i = current_node_index + 1
                       /\ after[i] \in { node_from_ui(ui, sanitize_id(ui.var_node_id)),
                                        node_from_ui(ui, Nodes[i].node_id) }
              /\ current_node_index' = Len(after) - 1
              /\ ui'.var_node_id = after[Len(after)].node_id

\* C14: _add_node appends exactly one node, with the id knoten-N for the smallest
\* N >= 1 that no node of the project has (the pending form applied), the title
\* "Knoten N" and the one choice "Weiter" to "end"; the nodes that were there keep
\* their order, and the new node is the selected one.
C14_AddAppends == [][AddAppends]_vars

\* _move_node(direction) exchanges the selected node with its neighbour and
\* leaves the rest of the project alone; at the ends of the list it changes nothing
MoveExchanges(direction) ==
    (out'.op = "move" /\ MoveNode(direction))
       => LET idx == current_node_index
              new_idx == idx + direction
              after == project'.nodes
          IN  IF idx = None \/ new_idx < 0 \/ new_idx >= Len(Nodes)
              THEN project' = project /\ current_node_index' = idx
              ELSE /\ idx < Len(Nodes)
                   /\ Len(after) = Len(Nodes)
                   /\ after[idx + 1] = Nodes[new_idx + 1]
                   /\ after[new_idx + 1] \in { Nodes[idx + 1],
                                               node_from_ui(ui, sanitize_id(ui.var_node_id)),
                                               node_from_ui(ui, Nodes[idx + 1].node_id) }
                   /\ \A i \in DOMAIN Nodes \ {idx + 1, new_idx + 1} : after[i] = Nodes[i]
                   /\ project'.meta = project.meta
                   /\ current_node_index' = new_idx

\* C15: _move_node(-1) and _move_node(+1), in every reachable state and whatever
\* the form holds, exchange the selected node with its neighbour and change no
\* other node (the moved node receives the pending edits of the form, the
\* neighbour nothing), the moved node stays selected; at the first position with
\* -1 and the last with +1 the project is left as it was.
C15_MoveExchangesOnly == [][\A direction \in {-1, 1} : MoveExchanges(direction)]_vars

\* _delete_node leaves every node but the deleted one as it was
DeleteKeepsOthers ==
    (out'.op = "delete" /\ \E confirm \in BOOLEAN : DeleteNode(confirm))
       => LET after == project'.nodes
          IN  \/ project' = project
              \/ /\ Selected
                 /\ Len(after) = Len(Nodes) - 1
                 /\ \A i \in DOMAIN Nodes :
                       /\ i < current_node_index + 1 => after[i] = Nodes[i]
                       /\ i > current_node_index + 1 => after[i - 1] = Nodes[i]

\* _apply_current_node leaves every node but the selected one as it was
RenameKeepsOthers ==
    (out'.op = "apply" /\ ApplyCurrentNode)
       => /\ Len(project'.nodes) = Len(Nodes)
          /\ \A i \in DOMAIN Nodes :
                i # current_node_index + 1 => project'.nodes[i] = Nodes[i]

\* C16: deleting a node and renaming a node (applying the form) change no choice
\* of any other node: a choice to the deleted id or to the old id keeps its label
\* and its target and dangles.
C16_OtherChoicesUntouched == [][DeleteKeepsOthers /\ RenameKeepsOthers]_vars

\* C16 witness: the node the delete dialog named is gone, and a choice of a
\* remaining node still has its id as target.
C16_Witness ==
    /\ out.op = "delete" /\ out.msg = NoMsg /\ ~out.exc
    /\ out.asked # << >>
    /\ out.asked[1] \notin Range(node_ids(Nodes))
    /\ \E i \in DOMAIN Nodes : \E k \in DOMAIN Nodes[i].options :
          Nodes[i].options[k].target = out.asked[1]

\* _load_project either takes over what it decoded or leaves the project alone
LoadAtomic ==
    /\ \A data \in Docs, now \in Stamps :
          (out'.op = "load" /\ LoadProject(data, now))
             => /\ out'.msg \in {"Geladen", "Fehler: Konnte nicht laden"}
                /\ out'.msg = "Geladen" => project' = loaded_project(data)
                /\ out'.msg = "Fehler: Konnte nicht laden" => project' = project
    /\ (out'.op = "load" /\ LoadMalformed)
          => out'.msg = "Fehler: Konnte nicht laden" /\ project' = project

\* C17: when _load_project reports "Geladen" the project is exactly the decoded
\* document (with the default node "start" when it has no nodes), and when it
\* reports an error the project is the one held before; the form of the node
\* selected before the load is written into no node of the loaded project.
C17_LoadAtomic == [][LoadAtomic]_vars

\* C18: the selected index is None or a position of project.nodes, in every
\* reachable state.
C18_IndexInRange == current_node_index = None \/ Selected

=============================================================================
